---- MODULE Spec2Model ----
(***************************************************************************)
(* Model of src/app.py: the index builder (build_embeddings), the "Build   *)
(* Embeddings" button handler and the query block of the comment search    *)
(* application.                                                            *)
(*                                                                         *)
(* The vector store (a chromadb collection) and the embedder (a sentence   *)
(* transformer) are external collaborators of app.py.  What their calls    *)
(* do (Embedding, Collides, Matches, Distance, NearestFirst, coll_query)   *)
(* is modelled from the contracts of spec.md sections 4.1, 4.3 and 6;      *)
(* everything else is translated from the lines of app.py named in the     *)
(* comments.                                                               *)
(*                                                                         *)
(* Scaling.  Two numbers of app.py are too large to enumerate and are      *)
(* drawn from small ranges instead: batch_size (100 at line 60) ranges     *)
(* over 1..MaxBatchSize, and n_results (slider 5..50 at line 91) ranges    *)
(* over 1..MaxResults.  The code uses both only as a slice width and a     *)
(* result limit.                                                           *)
(***************************************************************************)
EXTENDS Integers, Sequences, FiniteSets, TLC

VARIABLES
    df,               \* the corpus: rows with Comment and Sentiment (line 46)
    store,            \* the records of collection "mrbeast_comments" (lines 21-24)
    pc,               \* position of the script: idle, building, done, failed
    i,                \* loop variable of build_embeddings (line 63)
    batch_size,       \* line 60
    reported,         \* the fractions passed to progress_bar.progress (line 72)
    added,            \* the batches coll.add committed in the current run (line 69)
    attempted,        \* loop iterations entered in the current run (lines 63-72)
    deleteRaised,     \* whether coll.delete raised in the current run (lines 50-53)
    cleared,          \* whether the store was empty when the loop started
    error,            \* the exception that left build_embeddings, or "none"
    notified,         \* whether st.success("Done!") ran for the current run (line 100)
    prevCompleted,    \* whether the run before the current one reached line 100
    prevPairs,        \* the (id, label) pairs of the store when that run ended
    query,            \* the text of the search box (line 104)
    sentiment_filter, \* the multiselect's selection (line 88)
    n_results,        \* the slider's value (line 91)
    where_filter,     \* lines 110-112
    res,              \* the records coll.query returned, in order (line 114)
    outcome,          \* what the query block displayed: none, results, warning, error
    sentiment_dist    \* the Counter of line 120 as a sequence of <<label, count>>

buildVars == <<df, store, pc, i, batch_size, reported, added, attempted,
               deleteRaised, cleared, error, notified, prevCompleted, prevPairs>>
queryVars == <<query, sentiment_filter, n_results, where_filter, res, outcome,
               sentiment_dist>>
vars == <<buildVars, queryVars>>

(***************************************************************************)
(* Bounds and input alphabets.                                             *)
(***************************************************************************)
MaxRows == 3
MaxBatchSize == 2
MaxResults == 3

Comments == {"a", "b"}
Sentiments == {"Positive", "Negative", "Neutral"}
QueryTexts == {"a", "q"}

Min(x, y) == IF x <= y THEN x ELSE y

Range(s) == {s[k] : k \in 1..Len(s)}

Rows == [Comment : Comments, Sentiment : Sentiments]

CorporaUpTo(n) == UNION {[1..m -> Rows] : m \in 0..n}

\* A corpus a previous version of the CSV file held: n rows whose text is
\* none of Comments, so that a record of it is recognisable in the store.
OldRow == [Comment |-> "old", Sentiment |-> "Neutral"]
OldCorpus(n) == [k \in 1..n |-> OldRow]

(***************************************************************************)
(* External collaborator: the embedder (model.encode, lines 67 and 108).   *)
(* Order-preserving map from a batch of texts to vectors; a vector is one  *)
(* integer coordinate here.                                                *)
(***************************************************************************)
Embedding(text) ==
    CASE text = "a" -> 0
      [] text = "q" -> 2
      [] text = "b" -> 3
      [] OTHER -> 5

encode(texts) == [k \in 1..Len(texts) |-> Embedding(texts[k])]

(***************************************************************************)
(* build_embeddings, lines 55-72: the lists and the slices.                *)
(***************************************************************************)
\* line 55: comments = df["Comment"].tolist()
comments(d) == [k \in 1..Len(d) |-> d[k].Comment]

\* line 56: sentiments = df["Sentiment"].tolist()
sentiments(d) == [k \in 1..Len(d) |-> d[k].Sentiment]

\* line 57: f"comment_{i}" for the 0-based position i
CommentId(pos) == "comment_" \o ToString(pos)

\* line 57: ids = [f"comment_{i}" for i in range(len(comments))]
ids(d) == [k \in 1..Len(d) |-> CommentId(k - 1)]

\* line 58: metadatas = [{"sentiment": sent} for sent in sentiments]
metadatas(d) == [k \in 1..Len(d) |-> [sentiment |-> sentiments(d)[k]]]

\* Python's lst[lo:hi] for 0 <= lo, with 0-based lo and exclusive hi
Slice(lst, lo, hi) == SubSeq(lst, lo + 1, Min(hi, Len(lst)))

\* line 64
batch_comments(d, lo, bs) == Slice(comments(d), lo, lo + bs)

\* line 65
batch_ids(d, lo, bs) == Slice(ids(d), lo, lo + bs)

\* line 66: a plausible slip slices the metadata from the start of the list
batch_metadata_from_start(d, lo, bs) == Slice(metadatas(d), 0, bs)

batch_metadata(d, lo, bs) == Slice(metadatas(d), lo, lo + bs)

\* line 67
batch_embeddings(d, lo, bs) == encode(batch_comments(d, lo, bs))

\* The arguments of coll.add at line 69, zipped into records.
Batch(d, lo, bs) ==
    [k \in 1..Len(batch_ids(d, lo, bs)) |->
        [id        |-> batch_ids(d, lo, bs)[k],
         document  |-> batch_comments(d, lo, bs)[k],
         embedding |-> batch_embeddings(d, lo, bs)[k],
         sentiment |-> batch_metadata(d, lo, bs)[k].sentiment]]

\* line 63: range(0, len(comments), batch_size) yields i.
\* A plausible slip stops before a last batch that is not full.
LoopContinuesFullOnly(pos, n, bs) == pos + bs <= n

LoopContinues(pos, n, bs) == pos < n

\* line 71: progress = min(i + batch_size, len(comments)).
\* A plausible slip leaves the min out.
ProgressNoMin(pos, n, bs) == pos + bs

Progress(pos, n, bs) == Min(pos + bs, n)

\* line 72: progress / len(comments), kept as numerator and denominator
Fraction(p, n) == [num |-> p, den |-> n]

\* Lines 63-72 hold no try: an exception of model.encode or coll.add leaves
\* build_embeddings, and line 100 is not reached.  A plausible slip wraps
\* the loop body like the delete of lines 50-53 (except: pass).
BatchExceptionSwallowed == FALSE

BatchExceptionPropagates == TRUE

(***************************************************************************)
(* External collaborator: the vector store (spec.md section 4.1).          *)
(***************************************************************************)
\* coll.delete(where={}) at line 51: removes every record, or raises and
\* removes nothing; lines 52-53 swallow the exception.
coll_delete(s, raised) == IF raised THEN s ELSE {}

StoreIds(s) == {r.id : r \in s}

\* coll.add at line 69 (insertBatch): DuplicateIdError when an id of the
\* batch is in the store, and then nothing of the batch is inserted.
Collides(s, batch) == \E k \in 1..Len(batch) : batch[k].id \in StoreIds(s)

coll_add(s, batch) == s \cup Range(batch)

\* The records a completed rebuild of corpus d writes into an empty store.
RecordsOf(d) == Range(Batch(d, 0, Len(d)))

PriorStores == {RecordsOf(OldCorpus(n)) : n \in 0..MaxRows}

(***************************************************************************)
(* The initial state: the script has run lines 1-46.  The collection is    *)
(* loaded from ./chroma_db when it exists (lines 16, 21-24), so it may     *)
(* hold the records of an earlier corpus.                                  *)
(***************************************************************************)
NoQuery ==
    /\ query = ""
    /\ sentiment_filter = <<"All">>
    /\ n_results = 1
    /\ where_filter = [kind |-> "none"]
    /\ res = <<>>
    /\ outcome = "none"
    /\ sentiment_dist = <<>>

InitBuild ==
    /\ pc = "idle"
    /\ i = 0
    /\ batch_size = 1
    /\ reported = <<>>
    /\ added = <<>>
    /\ attempted = 0
    /\ deleteRaised = FALSE
    /\ cleared = FALSE
    /\ error = "none"
    /\ notified = FALSE
    /\ prevCompleted = FALSE
    /\ prevPairs = {}

Init ==
    /\ df \in CorporaUpTo(MaxRows)
    /\ store \in PriorStores
    /\ InitBuild
    /\ NoQuery

IdLabelPairs(s) == {<<r.id, r.sentiment>> : r \in s}

\* A rerun of the script that does not reach the query block shows nothing
\* of an earlier query.
ResetQuery ==
    /\ query' = ""
    /\ sentiment_filter' = <<"All">>
    /\ n_results' = 1
    /\ where_filter' = [kind |-> "none"]
    /\ res' = <<>>
    /\ outcome' = "none"
    /\ sentiment_dist' = <<>>

(***************************************************************************)
(* The button handler, lines 98-100, and build_embeddings, lines 48-74.    *)
(***************************************************************************)
\* Lines 98-99 and 49-61: the click, the clear step and the setup.  The
\* step writes every query variable and reads none; it is taken from the
\* states that show no query (see ClearSearch).
Click ==
    /\ pc = "idle"
    /\ outcome = "none"
    /\ \E raised \in BOOLEAN, bs \in 1..MaxBatchSize :
        /\ store' = coll_delete(store, raised)
        /\ deleteRaised' = raised
        /\ cleared' = (coll_delete(store, raised) = {})
        /\ batch_size' = bs
    /\ pc' = "building"
    /\ i' = 0
    /\ reported' = <<>>
    /\ added' = <<>>
    /\ attempted' = 0
    /\ error' = "none"
    /\ notified' = FALSE
    /\ UNCHANGED <<df, prevCompleted, prevPairs, queryVars>>

\* Lines 63-72, one iteration in which encode and add succeed.
AddBatch ==
    /\ pc = "building"
    /\ LoopContinues(i, Len(df), batch_size)
    /\ ~Collides(store, Batch(df, i, batch_size))
    /\ store' = coll_add(store, Batch(df, i, batch_size))
    /\ added' = Append(added, Batch(df, i, batch_size))
    /\ attempted' = attempted + 1
    /\ reported' = Append(reported,
                          Fraction(Progress(i, Len(df), batch_size), Len(df)))
    /\ i' = i + batch_size
    /\ UNCHANGED <<df, pc, batch_size, deleteRaised, cleared, error, notified,
                   prevCompleted, prevPairs, queryVars>>

\* Lines 63-72, one iteration in which model.encode (line 67) or coll.add
\* (line 69) raises: nothing of the batch is inserted.  coll.add raises
\* DuplicateIdError when an id of the batch is in the store.
BatchFails ==
    /\ pc = "building"
    /\ LoopContinues(i, Len(df), batch_size)
    /\ attempted' = attempted + 1
    /\ \E e \in {"DuplicateIdError", "BatchError"} :
        /\ (e = "DuplicateIdError") => Collides(store, Batch(df, i, batch_size))
        /\ IF BatchExceptionPropagates
             THEN /\ error' = e
                  /\ pc' = "failed"
                  /\ i' = i
             ELSE /\ error' = error
                  /\ pc' = pc
                  /\ i' = i + batch_size
    /\ UNCHANGED <<df, store, batch_size, reported, added, deleteRaised,
                   cleared, notified, prevCompleted, prevPairs, queryVars>>

\* Line 74 and line 100: the loop is over, the bar is removed, "Done!".
Finish ==
    /\ pc = "building"
    /\ ~LoopContinues(i, Len(df), batch_size)
    /\ pc' = "done"
    /\ notified' = TRUE
    /\ UNCHANGED <<df, store, i, batch_size, reported, added, attempted,
                   deleteRaised, cleared, error, prevCompleted, prevPairs,
                   queryVars>>

\* The next run of the script (Streamlit reruns it on every interaction): the
\* locals of build_embeddings, the bar and the "Done!" of the last run are
\* gone, the store stays.
Rerun ==
    /\ pc \in {"done", "failed"}
    /\ pc' = "idle"
    /\ i' = 0
    /\ batch_size' = 1
    /\ reported' = <<>>
    /\ added' = <<>>
    /\ attempted' = 0
    /\ deleteRaised' = FALSE
    /\ cleared' = FALSE
    /\ error' = "none"
    /\ notified' = FALSE
    /\ prevCompleted' = (pc = "done")
    /\ prevPairs' = IF pc = "done" THEN IdLabelPairs(store) ELSE {}
    /\ UNCHANGED <<df, store, queryVars>>

Next == Click \/ AddBatch \/ BatchFails \/ Finish \/ Rerun

Spec == Init /\ [][Next]_vars

(***************************************************************************)
(* The sidebar widgets, lines 88 and 91.                                   *)
(***************************************************************************)
RECURSIVE Unique(_)
\* df['Sentiment'].unique().tolist(): the distinct values, first seen first
Unique(seq) ==
    IF seq = <<>> THEN <<>>
    ELSE LET front == Unique(SubSeq(seq, 1, Len(seq) - 1))
             last  == seq[Len(seq)]
         IN  IF last \in Range(front) THEN front ELSE Append(front, last)

\* line 88: options=["All"] + df['Sentiment'].unique().tolist()
Options(d) == <<"All">> \o Unique(sentiments(d))

\* What st.multiselect returns: the chosen options, each once, in the order
\* chosen.  Selections of no, one and two options are drawn.
Selections(d) ==
    LET opts == Range(Options(d))
    IN  {<<>>} \cup {<<x>> : x \in opts}
               \cup {p \in opts \X opts : p[1] # p[2]}

(***************************************************************************)
(* The query block, lines 106-155.                                         *)
(***************************************************************************)
\* lines 110-112.  A plausible slip leaves the multi-label branch out.
WhereFilterSingleOnly(S) ==
    IF ~("All" \in Range(S)) /\ Len(S) = 1
    THEN [kind |-> "eq", value |-> S[1]]
    ELSE [kind |-> "none"]

WhereFilter(S) ==
    IF ~("All" \in Range(S)) /\ Len(S) > 0
    THEN IF Len(S) = 1
         THEN [kind |-> "eq", value |-> S[1]]
         ELSE [kind |-> "in", values |-> S]
    ELSE [kind |-> "none"]

\* The store's reading of where: None, {"sentiment": v}, {"sentiment": {"$in": vs}}
Matches(w, r) ==
    CASE w.kind = "none" -> TRUE
      [] w.kind = "eq"   -> r.sentiment = w.value
      [] w.kind = "in"   -> \E k \in 1..Len(w.values) : r.sentiment = w.values[k]

\* The store's metric: squared distance, smaller is more similar.
Distance(q, r) == (q - r.embedding) * (q - r.embedding)

RECURSIVE NearestFirst(_, _, _)
\* Every way of listing the k nearest records of S, nearest first; records
\* at the same distance come in any order.
NearestFirst(S, q, k) ==
    IF k = 0 \/ S = {} THEN {<<>>}
    ELSE LET nearest == {r \in S : \A o \in S : Distance(q, r) <= Distance(q, o)}
         IN  UNION {{<<r>> \o t : t \in NearestFirst(S \ {r}, q, k - 1)} :
                    r \in nearest}

\* coll.query at line 114 for one query embedding: the results it may return.
coll_query(s, q_emb, k, w) ==
    NearestFirst({r \in s : Matches(w, r)}, q_emb[1], k)

\* line 119
result_sentiments(r) == [k \in 1..Len(r) |-> r[k].sentiment]

\* One step of Counter's counting: a new key goes last.
\* A plausible slip sets the count instead of adding to it.
CounterAddNoIncrement(c, x) ==
    IF \E k \in 1..Len(c) : c[k][1] = x
    THEN [k \in 1..Len(c) |-> IF c[k][1] = x THEN <<x, 1>> ELSE c[k]]
    ELSE Append(c, <<x, 1>>)

CounterAdd(c, x) ==
    IF \E k \in 1..Len(c) : c[k][1] = x
    THEN [k \in 1..Len(c) |-> IF c[k][1] = x THEN <<x, c[k][2] + 1>> ELSE c[k]]
    ELSE Append(c, <<x, 1>>)

RECURSIVE Counter(_)
\* line 120: Counter(result_sentiments), as its items() in insertion order
Counter(seq) ==
    IF seq = <<>> THEN <<>>
    ELSE CounterAdd(Counter(SubSeq(seq, 1, Len(seq) - 1)), seq[Len(seq)])

\* Lines 106-155: a rerun of the script with text in the search box.  The
\* step runs in a run of its own, after the one that built (Rerun).  It
\* reads no query variable and writes all of them, so its successors from a
\* state that shows a query are its successors from the same state with the
\* search box emptied (ClearSearch); it is taken from there.
Search ==
    /\ pc = "idle"
    /\ outcome = "none"
    /\ \E q \in QueryTexts, S \in Selections(df), k \in 1..MaxResults :
        /\ query' = q
        /\ sentiment_filter' = S
        /\ n_results' = k
        /\ where_filter' = WhereFilter(S)
        /\ \/ \* coll.query raises on a collection without records: lines 153-155
              /\ store = {}
              /\ res' = <<>>
              /\ outcome' = "error"
              /\ sentiment_dist' = <<>>
           \/ \* coll.query returns: lines 116-152
              \E r \in coll_query(store, encode(<<q>>), k, WhereFilter(S)) :
                /\ res' = r
                /\ IF r # <<>>
                     THEN /\ outcome' = "results"
                          /\ sentiment_dist' = Counter(result_sentiments(r))
                     ELSE /\ outcome' = "warning"
                          /\ sentiment_dist' = <<>>
    /\ UNCHANGED buildVars

\* Line 106 with an empty search box: the query block is skipped.
ClearSearch ==
    /\ pc = "idle"
    /\ outcome # "none"
    /\ ResetQuery
    /\ UNCHANGED buildVars

\* A fresh ./chroma_db: create_collection at line 24.
InitQuery ==
    /\ df \in CorporaUpTo(MaxRows)
    /\ store = {}
    /\ InitBuild
    /\ NoQuery

\* The builder alone on a fresh ./chroma_db.
SpecFresh == InitQuery /\ [][Next]_vars

NextQuery == Click \/ AddBatch \/ BatchFails \/ Finish \/ Rerun \/ Search \/ ClearSearch

SpecQuery == InitQuery /\ [][NextQuery]_vars

(***************************************************************************)
(* Properties.                                                             *)
(***************************************************************************)
n == Len(df)

\* The ids comment_0 .. comment_{p-1}.
PrefixIds(p) == {CommentId(k) : k \in 0..(p - 1)}

\* C1: after build_embeddings has run to completion on the corpus df, the
\* store holds exactly the records of df and nothing of an earlier corpus,
\* whatever the clear step did.
C1_NoLeakage ==
    pc = "done" =>
        /\ Cardinality(store) = n
        /\ \A r \in store : \E k \in 1..n :
               /\ r.id = CommentId(k - 1)
               /\ r.document = df[k].Comment
               /\ r.sentiment = df[k].Sentiment

\* C2: when the run before completed on the same corpus, the current run
\* does not fail on a duplicate id and, once complete, leaves the same
\* (id, label) pairs.
C2_RebuildIdempotent ==
    prevCompleted =>
        /\ error # "DuplicateIdError"
        /\ pc = "done" => IdLabelPairs(store) = prevPairs

\* C3: a rebuild that completes from a cleared store leaves one record per
\* row, with the row's id, document and label, no id twice; the batches
\* given to coll.add are the consecutive slices of batch_size rows (the last
\* may be smaller) in corpus order.
C3_OneRecordPerRow ==
    (pc = "done" /\ cleared) =>
        /\ Cardinality(store) = n
        /\ Cardinality(StoreIds(store)) = Cardinality(store)
        /\ \A k \in 1..n :
               /\ Cardinality({r \in store : r.id = CommentId(k - 1)}) = 1
               /\ \A r \in store : r.id = CommentId(k - 1) =>
                      /\ r.document = df[k].Comment
                      /\ r.sentiment = df[k].Sentiment
        /\ \A j \in 1..Len(added) :
               /\ Len(added[j]) >= 1
               /\ Len(added[j]) <= batch_size
               /\ j < Len(added) => Len(added[j]) = batch_size
               /\ j = Len(added) => (j - 1) * batch_size + Len(added[j]) = n
               /\ \A m \in 1..Len(added[j]) :
                      LET k == (j - 1) * batch_size + m
                      IN  /\ k <= n
                          /\ added[j][m].id = CommentId(k - 1)
                          /\ added[j][m].document = df[k].Comment
                          /\ added[j][m].sentiment = df[k].Sentiment
        /\ (n > 0) => added # <<>>

C3_Witness ==
    /\ pc = "done"
    /\ cleared
    /\ deleteRaised = FALSE
    /\ n = 3
    /\ batch_size = 2
    /\ Len(added) = 2
    /\ df[1].Sentiment # df[3].Sentiment
    /\ df[1].Comment # df[3].Comment

\* The progress values are never above 1.0 and never decrease.
ProgressMonotone ==
    /\ \A k \in 1..Len(reported) :
           /\ reported[k].den > 0
           /\ reported[k].num <= reported[k].den
    /\ \A k \in 1..(Len(reported) - 1) :
           reported[k].num * reported[k + 1].den
               <= reported[k + 1].num * reported[k].den

LastIsOne ==
    /\ reported # <<>>
    /\ reported[Len(reported)].num = reported[Len(reported)].den

\* C4 as stated: the reported fractions never decrease, never exceed 1.0,
\* and the last one is exactly 1.0 when the rebuild completes, for every
\* corpus size, the empty corpus included.
C4_ProgressOriginal ==
    /\ ProgressMonotone
    /\ pc = "done" => LastIsOne

\* C4 as amended: the reported fractions never decrease and never exceed
\* 1.0; when the rebuild completes on a corpus that is not empty the last
\* one is exactly 1.0, and on the empty corpus no fraction is reported.
C4_ProgressAmended ==
    /\ ProgressMonotone
    /\ (pc = "done" /\ n > 0) => LastIsOne
    /\ (pc = "done" /\ n = 0) => reported = <<>>

C4_Witness ==
    /\ pc = "done"
    /\ n = 3
    /\ batch_size = 2
    /\ reported = <<Fraction(2, 3), Fraction(3, 3)>>

\* C8: when batch j fails, no later batch is embedded or inserted, the
\* batches committed before it stay in the store, the exception leaves
\* build_embeddings, and "Done!" is emitted only by a run in which every
\* batch that was attempted was committed.
C8_FailureAborts ==
    /\ pc = "failed" =>
           /\ error # "none"
           /\ ~notified
           /\ attempted = Len(added) + 1
           /\ i = Len(added) * batch_size
           /\ \A j \in 1..Len(added) : Range(added[j]) \subseteq store
    /\ notified => (pc = "done" /\ attempted = Len(added))
    /\ attempted > Len(added) => pc = "failed"

C8_Witness ==
    /\ pc = "failed"
    /\ error = "BatchError"
    /\ Len(added) = 1
    /\ n = 3
    /\ Cardinality(store) = 2

\* C10: after the clear step and until the run ends or fails, the ids in
\* the store are exactly comment_0 .. comment_{p-1}, p = min(j * batch_size, n)
\* for the j batches committed so far.
C10_PrefixConsistent ==
    pc \in {"building", "failed"} =>
        StoreIds(store) = PrefixIds(Min(Len(added) * batch_size, n))

\* Whether the label of record r passes the selection S of the multiselect.
Passes(S, r) == S = <<>> \/ "All" \in Range(S) \/ r.sentiment \in Range(S)

Restricted(S) == S # <<>> /\ ~("All" \in Range(S))

\* C5: an empty selection or one that holds "All" gives no where filter;
\* otherwise the single-label and the multi-label filter both select the
\* records whose label is in the selection, and every returned record has
\* such a label.
C5_LabelFilter ==
    outcome # "none" =>
        /\ ~Restricted(sentiment_filter) => where_filter = [kind |-> "none"]
        /\ Restricted(sentiment_filter) =>
               /\ where_filter.kind = (IF Len(sentiment_filter) = 1 THEN "eq" ELSE "in")
               /\ \A r \in store :
                      Matches(where_filter, r) <=> r.sentiment \in Range(sentiment_filter)
               /\ \A k \in 1..Len(res) : res[k].sentiment \in Range(sentiment_filter)

C5_Witness ==
    /\ outcome = "results"
    /\ Len(sentiment_filter) = 2
    /\ Restricted(sentiment_filter)
    /\ \E r \in store : ~(r.sentiment \in Range(sentiment_filter))
    /\ Len(res) = 2

\* C6: a search of a store without records ends in the error outcome, a
\* search of a store with records none of which passes the filter ends in
\* the empty result without error, and the two outcomes differ.
C6_EmptyDistinguished ==
    outcome # "none" =>
        /\ store = {} => outcome = "error"
        /\ (store # {} /\ \A r \in store : ~Passes(sentiment_filter, r)) =>
               (outcome = "warning" /\ res = <<>>)

\* C7: the results are ordered by non-increasing similarity and are the
\* min(k, number of records passing the filter) nearest of the records that
\* pass; after a completed rebuild of n rows a search without filter and
\* with 1 <= k <= n returns exactly k results.
C7_ResultSizeOrder ==
    outcome \in {"results", "warning"} =>
        LET q       == Embedding(query)
            passing == {r \in store : Passes(sentiment_filter, r)}
        IN  /\ \A k \in 1..(Len(res) - 1) :
                   Distance(q, res[k]) <= Distance(q, res[k + 1])
            /\ Len(res) = Min(n_results, Cardinality(passing))
            /\ Range(res) \subseteq passing
            /\ Cardinality(Range(res)) = Len(res)
            /\ \A r \in passing \ Range(res) : \A k \in 1..Len(res) :
                   Distance(q, res[k]) <= Distance(q, r)
            /\ (prevCompleted /\ ~Restricted(sentiment_filter) /\ n_results <= n)
                   => Len(res) = n_results

C7_Witness ==
    /\ outcome = "results"
    /\ prevCompleted
    /\ ~Restricted(sentiment_filter)
    /\ n = 3
    /\ n_results = 3
    /\ Len(res) = 3
    /\ Distance(Embedding(query), res[1]) < Distance(Embedding(query), res[3])

RECURSIVE SumCounts(_)
SumCounts(c) == IF c = <<>> THEN 0 ELSE c[1][2] + SumCounts(Tail(c))

FirstSeen(labels, x) ==
    CHOOSE k \in 1..Len(labels) :
        labels[k] = x /\ \A m \in 1..(k - 1) : labels[m] # x

\* C9: the counts of the label distribution sum to the number of results,
\* its keys are the labels that occur, each with its number of occurrences,
\* in first-seen order; an empty result has the empty distribution.
C9_Summarize ==
    LET labels == [k \in 1..Len(res) |-> res[k].sentiment]
        c      == sentiment_dist
    IN  /\ SumCounts(c) = Len(res)
        /\ {c[k][1] : k \in 1..Len(c)} = Range(labels)
        /\ \A j, k \in 1..Len(c) : j # k => c[j][1] # c[k][1]
        /\ \A k \in 1..Len(c) :
               c[k][2] = Cardinality({m \in 1..Len(labels) : labels[m] = c[k][1]})
        /\ \A j, k \in 1..Len(c) :
               j < k => FirstSeen(labels, c[j][1]) < FirstSeen(labels, c[k][1])
        /\ res = <<>> => c = <<>>

C9_Witness ==
    /\ outcome = "results"
    /\ Len(res) = 3
    /\ Len(sentiment_dist) = 2
    /\ sentiment_dist[1][2] = 2
    /\ res[1].sentiment = res[3].sentiment

====
